---- MODULE Spec2Model ----
(***************************************************************************)
(* A model of merge.py: the helpers (unwrap_wayback, normalize_url,        *)
(* extract_snapshot_from_url, safe_int, parse_json), the row builder, the  *)
(* per-vintage drivers and the panel merge of append_2023_to_panel,        *)
(* append_2024_to_panel_streaming and build_panel.                         *)
(*                                                                         *)
(* Text is a sequence of tokens.  A token is one character (":", "/", "?", *)
(* "#", ";", " ", ",", ".", a digit) or an atom standing for a run of      *)
(* characters of one class:                                                *)
(*   "h"  the text http or https        "H"  the same in upper case        *)
(*   "a"  lower-case letters            "A"  upper-case letters            *)
(*   "w"  the text web                                                     *)
(*   "T1", "T2", "X1", "X2"  fourteen digits (see TsDigits)                *)
(* Python's None (and a missing cell, NaN) is the value None below.        *)
(***************************************************************************)
EXTENDS Integers, Sequences, FiniteSets, TLC

VARIABLES
    url, once, twice, upc,         \* normalize_url applied once and twice
    cands, idx, snap, spc,         \* extract_snapshot_from_url over its candidates
    raw, coerced, ipc,             \* safe_int applied to a raw cell value
    args, built, batch, bpc,       \* build_row and the caller's "if row: out.append(row)"
    disk, panel, ppc, nchunks, runs,   \* the persisted panel, the DataFrame of a run
    chunk, before, again,          \* the last merge: its batch, the panel before it, and
                                   \* whether the merge before it was of the same batch
    driver, source, rowno, out, mark, found, dpc, raisedBy,   \* a driver over a source CSV
    existing, incoming, planA, planB, panelA, panelB, qpc   \* one batch stream merged in two groupings

urlVars == <<url, once, twice, upc>>
snapVars == <<cands, idx, snap, spc>>
intVars == <<raw, coerced, ipc>>
rowVars == <<args, built, batch, bpc>>
panelVars == <<disk, panel, ppc, nchunks, runs, chunk, before, again>>
driverVars == <<driver, source, rowno, out, mark, found, dpc, raisedBy>>
splitVars == <<existing, incoming, planA, planB, panelA, panelB, qpc>>
vars == <<url, once, twice, upc, cands, idx, snap, spc, raw, coerced, ipc,
          args, built, batch, bpc,
          disk, panel, ppc, nchunks, runs, chunk, before, again,
          driver, source, rowno, out, mark, found, dpc, raisedBy,
          existing, incoming, planA, planB, panelA, panelB, qpc>>

\* None, and the NaN pandas gives for an empty cell: neither is a str
None == <<"None">>
NaN == <<"NaN">>
Idle == "idle"

isinstance_str(v) == v # None /\ v # NaN
\* bool(v): None and the empty text are false, NaN and any other text true
Truthy(v) == v # None /\ v # <<>>
\* a or b
Or(a, b) == IF Truthy(a) THEN a ELSE b

(***************************************************************************)
(* Bounds of the checked input sets.                                       *)
(***************************************************************************)
MaxPathLen == 3
MaxWrap == 2
MaxCands == 3
MaxNumLen == 5
MaxRows == 2
MaxChunkRows == 1
MaxChunks == 2
MaxRuns == 2
MaxSourceRows == 2
MaxNew == 2

(***************************************************************************)
(* Text helpers: str.find, str.rfind, str.lower, str.rstrip("/"),          *)
(* str.strip.                                                              *)
(***************************************************************************)
\* Body(v) with v evaluated once: a local name of the code whose value is
\* used several times
With(v, Body(_)) == CHOOSE r \in {Body(x) : x \in {v}} : TRUE

Min(S) == With(S, LAMBDA T : CHOOSE x \in T : \A y \in T : x <= y)
Max(S) == With(S, LAMBDA T : CHOOSE x \in T : \A y \in T : x >= y)

\* the least member of a set of positions, 0 for the empty set
FirstOf(S) == With(S, LAMBDA T : IF T = {} THEN 0 ELSE Min(T))
LastOf(S) == With(S, LAMBDA T : IF T = {} THEN 0 ELSE Max(T))

\* s.find(c, from): the first position >= from holding c, 0 when there is none
Find(s, c, from) == With(s, LAMBDA t : FirstOf({i \in from..Len(t) : t[i] = c}))

\* s.rfind(c): the last position holding c, 0 when there is none
RFind(s, c) == With(s, LAMBDA t : LastOf({i \in 1..Len(t) : t[i] = c}))

Tail_(s, i) == SubSeq(s, i, Len(s))

LowerTok(t) == CASE t = "H" -> "h" [] t = "A" -> "a" [] OTHER -> t
Lower(s) == With(s, LAMBDA t : [i \in 1..Len(t) |-> LowerTok(t[i])])

\* the length of s without its trailing "/"s
StrippedLen(s) == LastOf({i \in 1..Len(s) : s[i] # "/"})
RStripSlash(s) == With(s, LAMBDA t : SubSeq(t, 1, StrippedLen(t)))

\* not url.strip(): the text is empty or white space only
IsBlank(s) == \A i \in 1..Len(s) : s[i] = " "

AlphaToks == {"h", "H", "a", "A", "w"}
Ts14 == {"T1", "T2", "X1", "X2"}
SchemeChars == AlphaToks \cup Ts14 \cup {"."}

(***************************************************************************)
(* unwrap_wayback: WAYBACK_ANY_RE = /web/\d{14}/(https?://.+), searched    *)
(* from the left; group 1 runs to the end of the text.                     *)
(***************************************************************************)
WaybackAnyAt(s, i) ==
    /\ i + 9 <= Len(s)
    /\ s[i] = "/" /\ s[i + 1] = "w" /\ s[i + 2] = "/"
    /\ s[i + 3] \in Ts14
    /\ s[i + 4] = "/"
    /\ s[i + 5] = "h" /\ s[i + 6] = ":" /\ s[i + 7] = "/" /\ s[i + 8] = "/"

unwrap_wayback(u) ==
    IF ~isinstance_str(u) THEN None
    ELSE With(FirstOf({i \in 1..Len(u) : WaybackAnyAt(u, i)}), LAMBDA m :
             IF m > 0 THEN Tail_(u, m + 5) ELSE u)

(***************************************************************************)
(* urllib.parse.urlparse / urlunparse as normalize_url calls them.         *)
(***************************************************************************)
UsesParams(scheme) == scheme = <<>> \/ scheme = <<"h">>
UsesNetloc(scheme) == scheme = <<>> \/ scheme = <<"h">>

\* urlsplit, in its own order: the scheme up to the first ":", the netloc
\* after "//" up to the first of "/?#", then the fragment, then the query
SplitScheme(u) ==
    With(Find(u, ":", 1), LAMBDA i :
        IF i > 1 /\ u[1] \in AlphaToks /\ \A k \in 1..(i - 1) : u[k] \in SchemeChars
        THEN [scheme |-> Lower(SubSeq(u, 1, i - 1)), rest |-> Tail_(u, i + 1)]
        ELSE [scheme |-> <<>>, rest |-> u])

SplitNetloc(r) ==
    IF Len(r) >= 2 /\ r[1] = "/" /\ r[2] = "/"
    THEN With(FirstOf({k \in 3..Len(r) : r[k] \in {"/", "?", "#"}}), LAMBDA d :
             With(IF d = 0 THEN Len(r) + 1 ELSE d, LAMBDA delim :
                 [netloc |-> SubSeq(r, 3, delim - 1), rest |-> Tail_(r, delim)]))
    ELSE [netloc |-> <<>>, rest |-> r]

\* url.split(c, 1)
SplitAt(r, c) ==
    With(Find(r, c, 1), LAMBDA i :
        IF i > 0 THEN [head |-> SubSeq(r, 1, i - 1), tail |-> Tail_(r, i + 1)]
        ELSE [head |-> r, tail |-> <<>>])

urlsplit(u) ==
    With(SplitScheme(u), LAMBDA s :
    With(SplitNetloc(s.rest), LAMBDA n :
    With(SplitAt(n.rest, "#"), LAMBDA f :
    With(SplitAt(f.head, "?"), LAMBDA q :
        [scheme |-> s.scheme, netloc |-> n.netloc, path |-> q.head,
         query |-> q.tail, fragment |-> f.tail]))))

\* _splitparams: the ";" looked for after the last "/"
splitparams(p) ==
    With(IF Find(p, "/", 1) > 0 THEN Find(p, ";", RFind(p, "/")) ELSE Find(p, ";", 1),
         LAMBDA i :
            IF i = 0 THEN [path |-> p, params |-> <<>>]
            ELSE [path |-> SubSeq(p, 1, i - 1), params |-> Tail_(p, i + 1)])

urlparse(u) ==
    With(urlsplit(u), LAMBDA s :
    With(IF UsesParams(s.scheme) /\ Find(s.path, ";", 1) > 0
         THEN splitparams(s.path)
         ELSE [path |-> s.path, params |-> <<>>], LAMBDA sp :
        [scheme |-> s.scheme, netloc |-> s.netloc, path |-> sp.path,
         params |-> sp.params, query |-> s.query, fragment |-> s.fragment]))

\* urlunsplit: "//" and the netloc are written when there is a netloc, or when
\* the scheme takes one and the path does not itself start with "//"
WithNetloc(scheme, netloc, path) ==
    IF netloc # <<>> \/ (scheme # <<>> /\ UsesNetloc(scheme)
                           /\ ~(Len(path) >= 2 /\ path[1] = "/" /\ path[2] = "/"))
    THEN <<"/", "/">> \o netloc
            \o (IF path # <<>> /\ path[1] # "/" THEN <<"/">> \o path ELSE path)
    ELSE path

\* urlunparse((scheme, netloc, path, "", "", ""))
urlunparse(scheme, netloc, path) ==
    IF scheme # <<>> THEN scheme \o <<":">> \o WithNetloc(scheme, netloc, path)
    ELSE WithNetloc(scheme, netloc, path)

normalize_url(u) ==
    With(unwrap_wayback(u), LAMBDA un :
        IF ~isinstance_str(un) \/ IsBlank(un) THEN None
        ELSE With(urlparse(un), LAMBDA p :
                 urlunparse(Lower(p.scheme), Lower(p.netloc), RStripSlash(p.path))))

(***************************************************************************)
(* The URL inputs: null, blank, plain URLs (scheme and host in either      *)
(* case, a path with parameters and trailing slashes, a query, a           *)
(* fragment) and the same wrapped by the archive up to MaxWrap times.      *)
(***************************************************************************)
RECURSIVE SeqsUpTo(_, _)
SeqsUpTo(S, n) ==
    IF n = 0 THEN {<<>>}
    ELSE LET shorter == SeqsUpTo(S, n - 1)
         IN  shorter \cup {Append(s, x) : s \in shorter, x \in S}

PlainUrls ==
    {s \o n \o p \o t :
        s \in {<<>>, <<"h", ":">>, <<"H", ":">>},
        n \in {<<>>, <<"/", "/", "a">>, <<"/", "/", "A">>},
        p \in SeqsUpTo({"/", "a", ";"}, MaxPathLen),
        t \in {<<>>, <<"?", "a">>, <<"#", "a">>}}
ArchivePrefix == <<"h", ":", "/", "/", "a", "/", "w", "/", "T1", "/">>

RECURSIVE Wrapped(_)
Wrapped(n) ==
    IF n = 0 THEN PlainUrls
    ELSE {ArchivePrefix \o v : v \in Wrapped(n - 1)}

UrlInputs == {None, <<>>, <<" ">>} \cup UNION {Wrapped(n) : n \in 0..MaxWrap}

UrlIdle == url = None /\ once = None /\ twice = None /\ upc = Idle
SnapIdle == cands = <<>> /\ idx = 0 /\ snap = [out |-> Idle] /\ spc = Idle
IntIdle == raw = [k |-> Idle] /\ coerced = [out |-> Idle] /\ ipc = Idle
RowIdle == args = [source |-> Idle] /\ built = [out |-> Idle] /\ batch = <<>> /\ bpc = Idle
PanelIdle ==
    /\ disk = <<>> /\ panel = <<>> /\ ppc = Idle /\ nchunks = 0 /\ runs = 0
    /\ chunk = <<>> /\ before = <<>> /\ again = FALSE
DriverIdle ==
    /\ driver = Idle /\ source = <<>> /\ rowno = 0 /\ out = <<>> /\ mark = 0
    /\ found = [out |-> Idle] /\ dpc = Idle /\ raisedBy = Idle
SplitIdle ==
    /\ existing = <<>> /\ incoming = <<>> /\ planA = <<>> /\ planB = <<>>
    /\ panelA = <<>> /\ panelB = <<>>
    /\ qpc = Idle

InitUrl ==
    /\ url \in UrlInputs
    /\ once = None /\ twice = None
    /\ upc = "start"
    /\ SnapIdle /\ IntIdle /\ RowIdle /\ PanelIdle /\ DriverIdle /\ SplitIdle

NormalizeOnce ==
    /\ upc = "start"
    /\ once' = normalize_url(url)
    /\ upc' = "once"
    /\ UNCHANGED <<url, twice, snapVars, intVars, rowVars, panelVars, driverVars, splitVars>>

NormalizeTwice ==
    /\ upc = "once"
    /\ twice' = normalize_url(once)
    /\ upc' = "twice"
    /\ UNCHANGED <<url, once, snapVars, intVars, rowVars, panelVars, driverVars, splitVars>>

NextUrl == NormalizeOnce \/ NormalizeTwice

SpecUrl == InitUrl /\ [][NextUrl]_vars

\* C6: normalize_url(normalize_url(u)) = normalize_url(u) for every input u
C6_Idempotent == upc = "twice" => twice = once


(***************************************************************************)
(* extract_snapshot_from_url: WAYBACK_TS_RE = /web/(\d{14})/ searched in   *)
(* each candidate in turn; the first match decides.                        *)
(***************************************************************************)
TsDigits(t) ==
    CASE t = "T1" -> <<"2","0","2","3","0","6","1","5","0","0","0","0","0","0">>
      [] t = "T2" -> <<"2","0","2","4","0","2","2","9","1","2","3","0","0","0">>
      [] t = "X1" -> <<"2","0","2","3","1","3","4","5","0","0","0","0","0","0">>
      [] t = "X2" -> <<"2","0","2","3","0","2","3","0","0","0","0","0","0","0">>

DigitChars == <<"0", "1", "2", "3", "4", "5", "6", "7", "8", "9">>
IsDigit(c) == \E k \in 1..10 : DigitChars[k] = c
DigitVal(c) == (CHOOSE k \in 1..10 : DigitChars[k] = c) - 1
DigitChar(n) == DigitChars[n + 1]

\* the number a run of decimal digits denotes
RECURSIVE Decimal(_)
Decimal(s) ==
    IF s = <<>> THEN 0
    ELSE 10 * Decimal(SubSeq(s, 1, Len(s) - 1)) + DigitVal(s[Len(s)])

\* n written with at least w digits, zero padded
RECURSIVE Padded(_, _)
Padded(n, w) ==
    IF w <= 1 /\ n < 10 THEN <<DigitChar(n)>>
    ELSE Append(Padded(n \div 10, w - 1), DigitChar(n % 10))

IsLeap(y) == (y % 4 = 0 /\ y % 100 # 0) \/ y % 400 = 0
DaysIn(y, m) ==
    IF m = 2 THEN (IF IsLeap(y) THEN 29 ELSE 28)
    ELSE IF m \in {4, 6, 9, 11} THEN 30 ELSE 31

\* pd.to_datetime(day, format="%Y%m%d"): the date, or a ValueError
to_datetime(day) ==
    With(Decimal(SubSeq(day, 1, 4)), LAMBDA y :
    With(Decimal(SubSeq(day, 5, 6)), LAMBDA m :
    With(Decimal(SubSeq(day, 7, 8)), LAMBDA d :
        IF y >= 1 /\ m \in 1..12 /\ d \in 1..DaysIn(y, m)
        THEN [ok |-> TRUE, y |-> y, m |-> m, d |-> d]
        ELSE [ok |-> FALSE, y |-> 0, m |-> 0, d |-> 0])))

isoformat(dt) == Padded(dt.y, 4) \o <<"-">> \o Padded(dt.m, 2) \o <<"-">> \o Padded(dt.d, 2)

WaybackTsAt(s, i) ==
    /\ i + 4 <= Len(s)
    /\ s[i] = "/" /\ s[i + 1] = "w" /\ s[i + 2] = "/"
    /\ s[i + 3] \in Ts14
    /\ s[i + 4] = "/"

\* WAYBACK_TS_RE.search(u): the 14 digits of the leftmost match, None without one
WaybackTsSearch(u) ==
    With(FirstOf({i \in 1..Len(u) : WaybackTsAt(u, i)}), LAMBDA m :
        IF m = 0 THEN None ELSE TsDigits(u[m + 3]))

\* how one turn of the loop, or the call, ends: "next" (go on to the next
\* candidate), "return" or "raise"
Continue == [out |-> "next", snapshot_day |-> None, date |-> None]
Raised == [out |-> "raise", snapshot_day |-> None, date |-> None]
Returned(day, date) == [out |-> "return", snapshot_day |-> day, date |-> date]

\* the body of the loop for one candidate
snapshot_of_candidate(u) ==
    IF ~isinstance_str(u) THEN Continue
    ELSE With(WaybackTsSearch(u), LAMBDA ts :
             IF ts = None THEN Continue
             ELSE With(SubSeq(ts, 1, 8), LAMBDA snapshot_day :
                  With(to_datetime(snapshot_day), LAMBDA dt :
                      IF dt.ok THEN Returned(snapshot_day, isoformat(dt))
                      ELSE Raised)))

RECURSIVE extract_from(_, _)
extract_from(urls, i) ==
    IF i > Len(urls) THEN Returned(None, None)
    ELSE With(snapshot_of_candidate(urls[i]), LAMBDA r :
             IF r.out = "next" THEN extract_from(urls, i + 1) ELSE r)

extract_snapshot_from_url(urls) == extract_from(urls, 1)

Site == <<"h", ":", "/", "/", "a", "/", "a">>
Archived(t) == <<"h", ":", "/", "/", "a", "/", "w", "/", t, "/">> \o Site
SnapUrls == {None, Site, <<"/", "w", "/", "T1">>} \cup {Archived(t) : t \in Ts14}

InitSnap ==
    /\ cands \in SeqsUpTo(SnapUrls, MaxCands)
    /\ idx = 1
    /\ snap = Continue
    /\ spc = "loop"
    /\ UrlIdle /\ IntIdle /\ RowIdle /\ PanelIdle /\ DriverIdle /\ SplitIdle

\* one turn of "for url in urls": skip, return or raise
TryCandidate ==
    /\ spc = "loop" /\ idx <= Len(cands)
    /\ \E r \in {snapshot_of_candidate(cands[idx])} :
           IF r.out = "next"
           THEN idx' = idx + 1 /\ UNCHANGED <<snap, spc>>
           ELSE /\ snap' = r
                /\ spc' = IF r.out = "raise" THEN "raised" ELSE "done"
                /\ UNCHANGED idx
    /\ UNCHANGED <<cands, urlVars, intVars, rowVars, panelVars, driverVars, splitVars>>

\* the loop ran out of candidates: return None, None
ReturnNone ==
    /\ spc = "loop" /\ idx > Len(cands)
    /\ snap' = Returned(None, None)
    /\ spc' = "done"
    /\ UNCHANGED <<cands, idx, urlVars, intVars, rowVars, panelVars, driverVars, splitVars>>

NextSnap == TryCandidate \/ ReturnNone

SpecSnap == InitSnap /\ [][NextSnap]_vars

\* what the claim expects: the first candidate that carries a valid timestamp
ValidTsOf(u) ==
    IF ~isinstance_str(u) THEN None
    ELSE LET ts == WaybackTsSearch(u)
         IN  IF ts = None \/ ~to_datetime(SubSeq(ts, 1, 8)).ok THEN None ELSE ts

FirstValid(urls) ==
    LET hits == {i \in 1..Len(urls) : ValidTsOf(urls[i]) # None}
    IN  IF hits = {} THEN None ELSE ValidTsOf(urls[Min(hits)])

ClaimedSnapshot(urls) ==
    LET ts == FirstValid(urls)
    IN  IF ts = None THEN Returned(None, None)
        ELSE Returned(SubSeq(ts, 1, 8),
                      SubSeq(ts, 1, 4) \o <<"-">> \o SubSeq(ts, 5, 6) \o <<"-">> \o SubSeq(ts, 7, 8))

\* C8: extract_snapshot_from_url never raises; a candidate whose timestamp is
\* not a calendar date counts as no match and the next candidate is tried; the
\* first valid timestamp gives snapshot_day (8 digits) and date (YYYY-MM-DD);
\* without a match both are null
C8_NeverRaisesFirstValidWins ==
    /\ spc # "raised"
    /\ spc = "done" => snap = ClaimedSnapshot(cands)


(***************************************************************************)
(* safe_int.  A raw value is what a CSV cell or a JSON field holds:        *)
(*   k = "nan"    None or NaN (a missing cell)                             *)
(*   k = "int"    the integer n                                            *)
(*   k = "float"  the float n + f/10 (n >= 0, one decimal)                 *)
(*   k = "str"    the text s                                               *)
(*   k = "list"   a JSON array of n elements                               *)
(* In a numeric text the token "a" stands for letters that spell no number *)
(* (so neither inf, nan nor an exponent).                                  *)
(***************************************************************************)
RawNan == [k |-> "nan", n |-> 0, f |-> 0, s |-> <<>>]
RawInt(n) == [k |-> "int", n |-> n, f |-> 0, s |-> <<>>]
RawFloat(n, f) == [k |-> "float", n |-> n, f |-> f, s |-> <<>>]
RawStr(s) == [k |-> "str", n |-> 0, f |-> 0, s |-> s]
RawList(n) == [k |-> "list", n |-> n, f |-> 0, s |-> <<>>]

IntNull == [out |-> "return", null |-> TRUE, n |-> 0]
IntOf(n) == [out |-> "return", null |-> FALSE, n |-> n]
IntRaise == [out |-> "raise", null |-> TRUE, n |-> 0]

RECURSIVE LStrip(_)
LStrip(s) == IF s # <<>> /\ s[1] = " " THEN LStrip(Tail(s)) ELSE s
RECURSIVE RStrip(_)
RStrip(s) == IF s # <<>> /\ s[Len(s)] = " " THEN RStrip(SubSeq(s, 1, Len(s) - 1)) ELSE s
Strip(s) == LStrip(RStrip(s))

AllDigits(s) == \A i \in 1..Len(s) : IsDigit(s[i])
Signed(s) == s # <<>> /\ s[1] = "-"
Unsigned(s) == IF Signed(s) THEN Tail(s) ELSE s
Sign(s) == IF Signed(s) THEN -1 ELSE 1

\* int(text): white space stripped, an optional sign, then digits only
IntLiteral(s) == LET b == Unsigned(Strip(s)) IN b # <<>> /\ AllDigits(b)
IntValue(s) == LET t == Strip(s) IN Sign(t) * Decimal(Unsigned(t))

\* float(text): digits with at most one ".", and a digit on one side of it
FloatLiteral(s) ==
    LET b == Unsigned(Strip(s))
        d == Find(b, ".", 1)
        whole == IF d = 0 THEN b ELSE SubSeq(b, 1, d - 1)
        frac == IF d = 0 THEN <<>> ELSE Tail_(b, d + 1)
    IN  AllDigits(whole) /\ AllDigits(frac) /\ Len(whole) + Len(frac) > 0

\* int(float(text)): the fraction is cut off
FloatTrunc(s) ==
    LET t == Strip(s)
        b == Unsigned(t)
        d == Find(b, ".", 1)
        whole == IF d = 0 THEN b ELSE SubSeq(b, 1, d - 1)
    IN  Sign(t) * Decimal(whole)

\* pd.isna(v) used as a condition: a list of two or more gives an array,
\* whose truth value is a ValueError
safe_int(v) ==
    IF v.k = "list" /\ v.n >= 2 THEN IntRaise
    ELSE IF v.k = "nan" THEN IntNull
    ELSE IF v.k = "int" THEN IntOf(v.n)
    ELSE IF v.k = "float" THEN IntOf(v.n)
    ELSE IF v.k = "str" THEN
             IF IntLiteral(v.s) THEN IntOf(IntValue(v.s))
             ELSE IF FloatLiteral(v.s) THEN IntOf(FloatTrunc(v.s))
             ELSE IntNull
    ELSE IntNull

NumToks == {"0", "1", "2", ",", ".", "a", "-", " "}
RawInputs ==
    {RawNan, RawInt(0), RawInt(12), RawFloat(12, 0), RawFloat(12, 7)}
        \cup {RawStr(s) : s \in SeqsUpTo(NumToks, MaxNumLen)}

InitInt ==
    /\ raw \in RawInputs
    /\ coerced = [out |-> Idle]
    /\ ipc = "start"
    /\ UrlIdle /\ SnapIdle /\ RowIdle /\ PanelIdle /\ DriverIdle /\ SplitIdle

SafeInt ==
    /\ ipc = "start"
    /\ coerced' = safe_int(raw)
    /\ ipc' = IF coerced'.out = "raise" THEN "raised" ELSE "done"
    /\ UNCHANGED <<raw, urlVars, snapVars, rowVars, panelVars, driverVars, splitVars>>

NextInt == SafeInt

SpecInt == InitInt /\ [][NextInt]_vars

\* the forms the claim accepts, and the integer each denotes
RECURSIVE CommaGroups(_)
CommaGroups(s) ==
    \/ s = <<>>
    \/ /\ Len(s) >= 4 /\ s[1] = ","
       /\ AllDigits(SubSeq(s, 2, 4))
       /\ CommaGroups(Tail_(s, 5))
CommaForm(s) ==
    LET c == Find(s, ",", 1)
    IN  c \in 2..4 /\ AllDigits(SubSeq(s, 1, c - 1)) /\ CommaGroups(Tail_(s, c))
WithoutCommas(s) == SelectSeq(s, LAMBDA c : c # ",")
PlainForm(s) == s # <<>> /\ AllDigits(s)
FloatForm(s) ==
    LET d == Find(s, ".", 1)
    IN  /\ d > 1 /\ d < Len(s)
        /\ AllDigits(SubSeq(s, 1, d - 1))
        /\ \A i \in (d + 1)..Len(s) : s[i] = "0"
AcceptedForm(s) == PlainForm(s) \/ CommaForm(s) \/ FloatForm(s)
Denoted(s) ==
    IF FloatForm(s) THEN Decimal(SubSeq(s, 1, Find(s, ".", 1) - 1))
    ELSE Decimal(WithoutCommas(s))
NonNumeric(s) == \A i \in 1..Len(s) : ~IsDigit(s[i])

\* C10: safe_int never raises, returns the denoted integer for plain digits,
\* comma-separated thousands ("1,200" is 1200) and floating forms ("12.0" is
\* 12), and null for missing, NaN or non-numeric input
C10_DenotedInteger ==
    /\ ipc # "raised"
    /\ ipc = "done" =>
          /\ raw.k = "str" /\ AcceptedForm(raw.s) => coerced = IntOf(Denoted(raw.s))
          /\ raw.k = "str" /\ NonNumeric(raw.s) => coerced = IntNull
          /\ raw.k = "nan" => coerced = IntNull
          /\ raw.k = "int" => coerced = IntOf(raw.n)

\* what fails is the comma form; the other forms are coerced as the claim says
C10_ExceptCommas ==
    ipc = "done" =>
          /\ raw.k = "str" /\ (PlainForm(raw.s) \/ FloatForm(raw.s))
                => coerced = IntOf(Denoted(raw.s))
          /\ raw.k = "str" /\ NonNumeric(raw.s) => coerced = IntNull
          /\ raw.k = "nan" => coerced = IntNull
          /\ raw.k = "int" => coerced = IntOf(raw.n)


(***************************************************************************)
(* safe_float.  A float is kept in tenths: t10 = 45 is 4.5; the texts fed  *)
(* to it carry at most one decimal.                                        *)
(***************************************************************************)
FloatNull == [null |-> TRUE, t10 |-> 0]
FloatOf(t10) == [null |-> FALSE, t10 |-> t10]

FloatTenths(s) ==
    LET t == Strip(s)
        b == Unsigned(t)
        d == Find(b, ".", 1)
        whole == IF d = 0 THEN b ELSE SubSeq(b, 1, d - 1)
        tenth == IF d = 0 \/ d = Len(b) THEN 0 ELSE DigitVal(b[d + 1])
    IN  Sign(t) * (10 * Decimal(whole) + tenth)

\* pd.isna(v) is inside the try: nothing escapes
safe_float(v) ==
    IF v.k = "int" THEN FloatOf(10 * v.n)
    ELSE IF v.k = "float" THEN FloatOf(10 * v.n + v.f)
    ELSE IF v.k = "str" /\ FloatLiteral(v.s) THEN FloatOf(FloatTenths(v.s))
    ELSE FloatNull

(***************************************************************************)
(* JSON cells.  A cell is what r.get(column) gives: None (no such column), *)
(* NaN (an empty cell) or a text; a text is kept as what json.loads makes  *)
(* of it: w = "empty" (''), "blank" (white space), "bad" (no JSON) or      *)
(* "json" with the document doc.  A document is an array of elements, an   *)
(* object (n keys), a string (n characters), a number or null; an element  *)
(* is an object with the fields f, or a scalar.                            *)
(***************************************************************************)
NoFields ==
    [name |-> None, data_name |-> None, ai_page |-> None, external_url |-> None,
     data_url |-> None, tool_link |-> None, internal_link |-> None,
     external_link |-> None, pricing |-> None, price_text |-> None,
     price_label |-> None, pricing_text |-> None, views |-> RawNan,
     saves |-> RawNan, rating |-> RawNan, average_rating |-> RawNan, date |-> None]

ObjectElem(f) == [e |-> "object", f |-> f]
ScalarElem == [e |-> "scalar", f |-> NoFields]

ArrayDoc(items) == [j |-> "array", items |-> items, n |-> Len(items)]
ObjectDoc(n) == [j |-> "object", items |-> <<>>, n |-> n]
StringDoc(n) == [j |-> "string", items |-> <<>>, n |-> n]
NumberDoc == [j |-> "number", items |-> <<>>, n |-> 0]
NullDoc == [j |-> "null", items |-> <<>>, n |-> 0]

CellNone == [c |-> "none", w |-> "", doc |-> NullDoc]
CellNaN == [c |-> "nan", w |-> "", doc |-> NullDoc]
CellEmpty == [c |-> "text", w |-> "empty", doc |-> NullDoc]
CellBlank == [c |-> "text", w |-> "blank", doc |-> NullDoc]
CellBad == [c |-> "text", w |-> "bad", doc |-> NullDoc]
CellJson(doc) == [c |-> "text", w |-> "json", doc |-> doc]

\* parse_json: [] unless the cell is a non-blank text that json.loads accepts
parse_json(v) ==
    IF v.c # "text" \/ v.w \in {"empty", "blank"} THEN ArrayDoc(<<>>)
    ELSE IF v.w = "bad" THEN ArrayDoc(<<>>)
    ELSE v.doc

\* "for item in <document>": the elements of an array, the keys of an object,
\* the characters of a string (all of them texts); a number or null is not
\* iterable (TypeError)
Iterable(doc) == doc.j \in {"array", "object", "string"}
IterItems(doc) ==
    IF doc.j = "array" THEN doc.items ELSE [i \in 1..doc.n |-> ScalarElem]

\* item.get(...): only a dict has it (AttributeError otherwise)
HasGet(item) == item.e = "object"

(***************************************************************************)
(* extract_release_date: the earliest "date" of the version history        *)
(***************************************************************************)
DateLess(a, b) ==
    \/ a.y < b.y
    \/ a.y = b.y /\ a.m < b.m
    \/ a.y = b.y /\ a.m = b.m /\ a.d < b.d

ReleaseOk(d) == [out |-> "return", date |-> d]
ReleaseRaise == [out |-> "raise", date |-> None]

extract_release_date(versions_json) ==
    LET doc == parse_json(versions_json)
    IN  IF ~Iterable(doc) THEN ReleaseRaise
        ELSE LET items == IterItems(doc)
             IN  IF \E i \in 1..Len(items) : ~HasGet(items[i]) THEN ReleaseRaise
                 ELSE LET dates == {to_datetime(items[i].f.date) :
                                       i \in {k \in 1..Len(items) :
                                                 /\ isinstance_str(items[k].f.date)
                                                 /\ to_datetime(items[k].f.date).ok}}
                      IN  IF dates = {} THEN ReleaseOk(None)
                          ELSE ReleaseOk(isoformat(
                                   CHOOSE d \in dates : \A o \in dates : ~DateLess(o, d)))

(***************************************************************************)
(* compute_tool_id and build_row                                           *)
(***************************************************************************)
\* the plausible slip: "is not None" where the code tests truth
compute_tool_id_none_test(internal_link, external_link) ==
    LET internal == normalize_url(internal_link)
    IN  IF internal # None THEN internal ELSE normalize_url(external_link)

compute_tool_id(internal_link, external_link) ==
    LET internal == normalize_url(internal_link)
    IN  IF Truthy(internal) THEN internal ELSE normalize_url(external_link)

NoRow ==
    [tool_id |-> None, tool_name |-> None, snapshot_day |-> None, date |-> None,
     release_date |-> None, internal_link |-> None, external_link |-> None,
     pricing_text |-> None, views |-> IntNull, saves |-> IntNull,
     comments_count |-> IntNull, rating |-> FloatNull, source |-> ""]

BuiltNone == [out |-> "none", row |-> NoRow]
BuiltRaise == [out |-> "raise", row |-> NoRow]
BuiltRow(row) == [out |-> "row", row |-> row]

build_row(a) ==
    LET tool_id == compute_tool_id(a.internal_link, a.external_link)
        release == extract_release_date(a.versions)
        views == safe_int(a.views)
        saves == safe_int(a.saves)
        comments_count == safe_int(a.comments_count)
    IN  IF ~Truthy(tool_id) THEN BuiltNone
        ELSE IF release.out = "raise" \/ views.out = "raise" \/ saves.out = "raise"
                \/ comments_count.out = "raise" THEN BuiltRaise
        ELSE BuiltRow(
            [tool_id |-> tool_id,
             tool_name |-> a.tool_name,
             snapshot_day |-> a.snapshot_day,
             date |-> a.date,
             release_date |-> release.date,
             internal_link |-> normalize_url(a.internal_link),
             external_link |-> normalize_url(a.external_link),
             pricing_text |-> IF isinstance_str(a.pricing_text) THEN a.pricing_text ELSE None,
             views |-> views,
             saves |-> saves,
             comments_count |-> comments_count,
             rating |-> safe_float(a.rating),
             source |-> a.source])

\* the caller's "if row: out.append(row)"
AppendIfRow(rows, res) == IF res.out = "row" THEN Append(rows, res.row) ELSE rows

(***************************************************************************)
(* build_row over the links a cell may hold                                *)
(***************************************************************************)
LinkInputs ==
    {None, NaN, <<>>, <<" ">>, <<"/">>, <<"?", "a">>, <<"#", "a">>, <<"/", ";", "a">>,
     Site, <<"H", ":", "/", "/", "A", "/", "a", "/", "?", "a">>,
     Archived("T1"), <<"/", "/", "A", "/">>, <<"a">>}
ViewInputs == {RawNan, RawStr(<<"1", "2">>), RawStr(<<"1", ",", "2", "0", "0">>), RawList(2)}
VersionInputs ==
    {CellNone, CellBad,
     CellJson(ArrayDoc(<<ObjectElem([NoFields EXCEPT !.date = SubSeq(TsDigits("T2"), 1, 8)]),
                         ObjectElem([NoFields EXCEPT !.date = SubSeq(TsDigits("T1"), 1, 8)]),
                         ObjectElem([NoFields EXCEPT !.date = SubSeq(TsDigits("X1"), 1, 8)])>>))}

InitRow ==
    /\ \E i \in LinkInputs, x \in LinkInputs, v \in ViewInputs, ver \in VersionInputs :
          args = [tool_name |-> <<"a">>, internal_link |-> i, external_link |-> x,
                  pricing_text |-> NaN, views |-> v, saves |-> RawStr(<<"5">>),
                  comments_count |-> RawNan, rating |-> RawStr(<<"4", ".", "5">>),
                  versions |-> ver,
                  snapshot_day |-> SubSeq(TsDigits("T1"), 1, 8),
                  date |-> isoformat(to_datetime(SubSeq(TsDigits("T1"), 1, 8))),
                  source |-> "2023"]
    /\ built = [out |-> Idle]
    /\ batch = <<>>
    /\ bpc = "call"
    /\ UrlIdle /\ SnapIdle /\ IntIdle /\ PanelIdle /\ DriverIdle /\ SplitIdle

BuildRow ==
    /\ bpc = "call"
    /\ built' = build_row(args)
    /\ bpc' = IF built'.out = "raise" THEN "raised" ELSE "built"
    /\ UNCHANGED <<args, batch, urlVars, snapVars, intVars, panelVars, driverVars, splitVars>>

AppendRow ==
    /\ bpc = "built"
    /\ batch' = AppendIfRow(batch, built)
    /\ bpc' = "done"
    /\ UNCHANGED <<args, built, urlVars, snapVars, intVars, panelVars, driverVars, splitVars>>

NextRow == BuildRow \/ AppendRow

SpecRow == InitRow /\ [][NextRow]_vars

Resolvable(u) == normalize_url(u) # None /\ normalize_url(u) # <<>>

\* C3: build_row returns no record when neither link canonicalizes to a
\* non-empty text, and the caller then appends nothing; otherwise tool_id is the
\* canonical internal link when that is non-empty and the canonical external
\* link only when it is not; a record's tool_id is never null or empty
C3_ToolIdResolved ==
    /\ bpc \in {"built", "done"} =>
          /\ built.out = "row" => built.row.tool_id # None /\ built.row.tool_id # <<>>
          /\ ~Resolvable(args.internal_link) /\ ~Resolvable(args.external_link)
                => built.out = "none"
          /\ Resolvable(args.internal_link)
                => built.out = "row" /\ built.row.tool_id = normalize_url(args.internal_link)
          /\ ~Resolvable(args.internal_link) /\ Resolvable(args.external_link)
                => built.out = "row" /\ built.row.tool_id = normalize_url(args.external_link)
    /\ bpc = "done" =>
          /\ built.out = "none" => batch = <<>>
          /\ built.out = "row" => batch = <<built.row>>
    /\ \A i \in 1..Len(batch) : batch[i].tool_id # None /\ batch[i].tool_id # <<>>

\* both links canonicalize to null or empty (one of them to the empty text),
\* build_row has returned no record and the caller has appended nothing
C3_Witness_Dropped ==
    /\ bpc = "done" /\ built.out = "none" /\ batch = <<>>
    /\ normalize_url(args.internal_link) = <<>>
    /\ normalize_url(args.external_link) = None


(***************************************************************************)
(* The panel.  A DataFrame is a sequence of rows; of a row the merge reads *)
(* tool_id, snapshot_day, views, saves and rating, and tool_name stands    *)
(* for the columns it carries along.  A snapshot_day cell keeps the Python *)
(* type of its value next to the day v it spells:                          *)
(*   t = "str"    the text build_row made ("20230615")                     *)
(*   t = "int"    the int64 read_csv makes of a column that is all digits  *)
(*   t = "float"  the float64 it makes of one with an empty cell           *)
(*   t = "null"   None or NaN                                              *)
(* A number cell is null or the number n (views and saves; rating in       *)
(* tenths).                                                                *)
(***************************************************************************)
DayStr(v) == [t |-> "str", v |-> v]
DayInt(v) == [t |-> "int", v |-> v]
DayFloat(v) == [t |-> "float", v |-> v]
DayNull == [t |-> "null", v |-> 0]
NumNull == [null |-> TRUE, n |-> 0]
NumOf(n) == [null |-> FALSE, n |-> n]

FrameRow(tool_id, day, views, saves, rating, tool_name) ==
    [tool_id |-> tool_id, snapshot_day |-> day, views |-> views, saves |-> saves,
     rating |-> rating, tool_name |-> tool_name]

\* x sorts before y in one descending column with na_position="last"
ColumnBefore(x, y) == ~x.null /\ (y.null \/ x.n > y.n)
ColumnTie(x, y) == (x.null /\ y.null) \/ (~x.null /\ ~y.null /\ x.n = y.n)

\* by=["views", "saves", "rating"], ascending=False
RankBefore(a, b) ==
    \/ ColumnBefore(a.views, b.views)
    \/ /\ ColumnTie(a.views, b.views)
       /\ \/ ColumnBefore(a.saves, b.saves)
          \/ ColumnTie(a.saves, b.saves) /\ ColumnBefore(a.rating, b.rating)
RankTie(a, b) == ~RankBefore(a, b) /\ ~RankBefore(b, a)

\* sort_values on several columns is stable: ties keep the order of the frame
SortPos(f, i) ==
    1 + Cardinality({j \in 1..Len(f) : RankBefore(f[j], f[i])})
      + Cardinality({j \in 1..(i - 1) : RankTie(f[j], f[i])})
sort_values(f) ==
    [p \in 1..Len(f) |-> f[CHOOSE i \in 1..Len(f) : SortPos(f, i) = p]]

\* two snapshot_day cells are one value for drop_duplicates: both missing, or
\* equal Python objects (a str never equals a number)
SameDay(x, y) ==
    \/ x.t = "null" /\ y.t = "null"
    \/ x.t = "str" /\ y.t = "str" /\ x.v = y.v
    \/ x.t \in {"int", "float"} /\ y.t \in {"int", "float"} /\ x.v = y.v

\* subset=["tool_id", "snapshot_day"]
SameSubset(a, b) == a.tool_id = b.tool_id /\ SameDay(a.snapshot_day, b.snapshot_day)

RECURSIVE Keep(_, _)
Keep(f, I) ==
    IF f = <<>> THEN <<>>
    ELSE IF 1 \in I THEN <<Head(f)>> \o Keep(Tail(f), {i - 1 : i \in I \ {1}})
    ELSE Keep(Tail(f), {i - 1 : i \in I})

\* drop_duplicates(keep="first")
drop_duplicates(f) ==
    Keep(f, {i \in 1..Len(f) : \A j \in 1..(i - 1) : ~SameSubset(f[j], f[i])})

\* pd.concat([panel, df_chunk]).sort_values(...).drop_duplicates(...)
merge_frames(f) == With(sort_values(f), LAMBDA sorted : drop_duplicates(sorted))

\* to_csv: a str and an int are written as their digits, a float with ".0",
\* a missing value as an empty cell
CsvDay(d) ==
    CASE d.t = "null" -> [t |-> "empty", v |-> 0]
      [] d.t = "float" -> [t |-> "decimal", v |-> d.v]
      [] OTHER -> [t |-> "digits", v |-> d.v]
to_csv(f) == [i \in 1..Len(f) |-> [f[i] EXCEPT !.snapshot_day = CsvDay(f[i].snapshot_day)]]

\* read_csv: the column is int64 when every cell is digits, float64 otherwise
read_csv(file) ==
    With(\A i \in 1..Len(file) : file[i].snapshot_day.t = "digits", LAMBDA allInt :
        [i \in 1..Len(file) |->
            [file[i] EXCEPT !.snapshot_day =
                IF file[i].snapshot_day.t = "empty" THEN DayNull
                ELSE IF allInt THEN DayInt(file[i].snapshot_day.v)
                ELSE DayFloat(file[i].snapshot_day.v)]])


\* the rows process_csv hands to build_panel: built by build_row, so a
\* snapshot_day is a str or None; views come from the source
Days == {20230615}
BuiltDays == {DayStr(d) : d \in Days} \cup {DayNull}
PanelRows ==
    {FrameRow("t", d, v, NumNull, NumNull, "old") :
        d \in BuiltDays, v \in {NumOf(100), NumOf(50), NumNull}}
\* the rows of a 2023 or 2024 batch: views=None in both drivers
BatchRows ==
    {FrameRow("t", d, NumNull, sv, NumNull, nm) :
        d \in BuiltDays, sv \in {NumNull, NumOf(5)}, nm \in {"n1", "n2"}}
Batches == UNION {[1..n -> BatchRows] : n \in 0..MaxChunkRows}

InitPanel ==
    /\ disk = <<>> /\ panel = <<>> /\ ppc = "nopanel" /\ nchunks = 0 /\ runs = 0
    /\ chunk = <<>> /\ before = <<>> /\ again = FALSE
    /\ UrlIdle /\ SnapIdle /\ IntIdle /\ RowIdle /\ DriverIdle /\ SplitIdle

\* build_panel: one merge of all rows, written to output_path
BuildPanel ==
    /\ ppc = "nopanel"
    /\ \E n \in 1..MaxRows : \E all_rows \in [1..n -> PanelRows] :
        \E df \in {merge_frames(all_rows)} :
            /\ panel' = df
            /\ disk' = to_csv(df)
            /\ before' = <<>>
            /\ chunk' = all_rows
    /\ ppc' = "stored"
    /\ again' = FALSE
    /\ UNCHANGED <<nchunks, runs, urlVars, snapVars, intVars, rowVars, driverVars, splitVars>>

\* append_2023_to_panel: load the panel, merge the one batch process_csv_2023
\* yields unless it is empty, persist
Append2023 ==
    /\ ppc = "stored"
    /\ runs < MaxRuns
    /\ runs' = runs + 1
    /\ \E rows \in Batches : \E loaded \in {read_csv(disk)} :
        IF rows = <<>>
        THEN /\ panel' = loaded
             /\ UNCHANGED <<disk, chunk, before, again>>
        ELSE \E df \in {merge_frames(loaded \o rows)} :
            /\ panel' = df
            /\ disk' = to_csv(df)
            /\ before' = loaded
            /\ chunk' = rows
            /\ again' = (rows = chunk)
    /\ UNCHANGED <<ppc, nchunks, urlVars, snapVars, intVars, rowVars, driverVars, splitVars>>

\* append_2024_to_panel_streaming: load the existing panel once
StartStreaming ==
    /\ ppc = "stored"
    /\ runs < MaxRuns
    /\ runs' = runs + 1
    /\ panel' = read_csv(disk)
    /\ ppc' = "streaming"
    /\ nchunks' = 0
    /\ UNCHANGED <<disk, chunk, before, again, urlVars, snapVars, intVars, rowVars, driverVars, splitVars>>

\* one chunk with rows: merge with the panel, persist
MergeChunk ==
    /\ ppc = "streaming"
    /\ nchunks < MaxChunks
    /\ nchunks' = nchunks + 1
    /\ \E df_chunk \in Batches \ {<<>>} : \E df \in {merge_frames(panel \o df_chunk)} :
        /\ panel' = df
        /\ disk' = to_csv(df)
        /\ before' = panel
        /\ chunk' = df_chunk
        /\ again' = (df_chunk = chunk)
    /\ UNCHANGED <<ppc, runs, urlVars, snapVars, intVars, rowVars, driverVars, splitVars>>

\* one chunk without rows: "if not out: continue"
SkipChunk ==
    /\ ppc = "streaming"
    /\ nchunks < MaxChunks
    /\ nchunks' = nchunks + 1
    /\ UNCHANGED <<disk, panel, ppc, runs, chunk, before, again,
                   urlVars, snapVars, intVars, rowVars, driverVars, splitVars>>

\* the source CSV is exhausted
EndStreaming ==
    /\ ppc = "streaming"
    /\ ppc' = "stored"
    /\ UNCHANGED <<disk, panel, nchunks, runs, chunk, before, again,
                   urlVars, snapVars, intVars, rowVars, driverVars, splitVars>>

NextPanel ==
    \/ BuildPanel
    \/ Append2023
    \/ StartStreaming
    \/ MergeChunk
    \/ SkipChunk
    \/ EndStreaming
SpecPanel == InitPanel /\ [][NextPanel]_vars


\* what the panel's claims speak of: the key of a record as the tool and the
\* day it names, whatever the type of the cell that holds the day
SameKey(a, b) ==
    /\ a.tool_id = b.tool_id
    /\ \/ a.snapshot_day.t \in {"null", "empty"} /\ b.snapshot_day.t \in {"null", "empty"}
       \/ /\ a.snapshot_day.t \notin {"null", "empty"}
          /\ b.snapshot_day.t \notin {"null", "empty"}
          /\ a.snapshot_day.v = b.snapshot_day.v
OnePerKey(f) == \A i, j \in 1..Len(f) : SameKey(f[i], f[j]) => i = j
Merged == ppc \in {"stored", "streaming"} /\ chunk # <<>>
Candidates == before \o chunk
Rows(f) == {f[i] : i \in 1..Len(f)}
\* the content of a record: its fields, the day as the day it names
Content(r) ==
    [r EXCEPT !.snapshot_day =
        IF r.snapshot_day.t \in {"null", "empty"} THEN [t |-> "none", v |-> 0]
        ELSE [t |-> "day", v |-> r.snapshot_day.v]]
Contents(f) == {Content(f[i]) : i \in 1..Len(f)}

\* C1: after every merge step the panel in memory and the panel on disk hold
\* at most one record per (tool_id, snapshot_day), a loaded record and a newly
\* built one of the same tool and day being the same key.
C1_OnePerKey == Merged => OnePerKey(panel) /\ OnePerKey(disk)

\* C2: every record that survives a merge is maximal in the ranking (views,
\* then saves, then rating, null lowest) among the candidates of its key.
C2_SurvivorMaximal ==
    Merged =>
        \A r \in Rows(panel) : \A c \in Rows(Candidates) :
            SameKey(r, c) => ~RankBefore(c, r)

\* C5: merging the same batch a second time leaves the content of the panel
\* unchanged: the same records, the record already present kept on a tie.
C5_MergeIdempotent == again => Contents(panel) = Contents(before)


(***************************************************************************)
(* The drivers.  A source row r is the cells of the columns a driver       *)
(* reads: link, and the listing column (top_alternative_json, tools_json   *)
(* or listings_json); r.get of a column the CSV does not have is None.     *)
(* An entry of a listing carries its link under the key the driver reads.  *)
(* A cell that reads "null" is not among the cells: read_csv makes NaN of  *)
(* it.                                                                     *)
(***************************************************************************)
Drivers ==
    {"process_csv", "process_csv_2024", "process_csv_2023",
     "append_2024_to_panel_streaming"}

Absent == None

\* the candidates each driver hands to extract_snapshot_from_url
SnapshotCandidates(d, r) ==
    IF d = "process_csv" THEN <<r.link, Absent, Absent, Absent>>
    ELSE IF d = "process_csv_2023" THEN <<r.link>>
    ELSE <<r.link, Absent>>

\* the keyword arguments of the main row
MainArgs(d, r, s) ==
    [tool_name |-> r.name,
     internal_link |-> IF d = "process_csv" THEN Or(r.link, Absent) ELSE r.link,
     external_link |-> Absent,
     pricing_text |-> Absent,
     views |-> IF d = "process_csv" THEN r.views ELSE RawNan,
     saves |-> RawNan,
     comments_count |-> RawNan,
     rating |-> RawNan,
     versions |-> CellNone,
     snapshot_day |-> s.snapshot_day,
     date |-> s.date,
     source |-> "2023"]

\* the keyword arguments of the row of one listing entry
ItemArgs(d, item, s) ==
    [tool_name |-> IF d = "process_csv" THEN Or(item.f.name, item.f.data_name)
                   ELSE item.f.name,
     internal_link |-> IF d = "process_csv" THEN item.f.ai_page
                       ELSE IF d = "process_csv_2023" THEN item.f.internal_link
                       ELSE item.f.tool_link,
     external_link |-> IF d = "process_csv" THEN Or(item.f.external_url, item.f.data_url)
                       ELSE item.f.external_link,
     pricing_text |-> IF d = "process_csv" THEN Or(item.f.pricing, item.f.price_text)
                      ELSE IF d = "process_csv_2023"
                           THEN Or(item.f.price_label, item.f.pricing_text)
                      ELSE item.f.pricing,
     views |-> IF d = "process_csv" THEN item.f.views ELSE RawNan,
     saves |-> item.f.saves,
     comments_count |-> RawNan,
     rating |-> IF d \in {"process_csv", "process_csv_2023"} THEN item.f.rating
                ELSE item.f.average_rating,
     versions |-> CellNone,
     snapshot_day |-> s.snapshot_day,
     date |-> s.date,
     source |-> "2023"]

Expanded(rows) == [raise |-> FALSE, rows |-> rows]
ExpandRaise == [raise |-> TRUE, rows |-> <<>>]

\* "for item in <items>: row = build_row(...item.get(...)); if row: out.append(row)"
RECURSIVE ExpandItems(_, _, _, _)
ExpandItems(d, items, s, rows) ==
    IF items = <<>> THEN Expanded(rows)
    ELSE IF ~HasGet(Head(items)) THEN ExpandRaise
    ELSE With(build_row(ItemArgs(d, Head(items), s)), LAMBDA res :
            IF res.out = "raise" THEN ExpandRaise
            ELSE ExpandItems(d, Tail(items), s, AppendIfRow(rows, res)))

\* "for item in parse_json(r.get(col))" over the listing column of the driver
ExpandListing(d, r, s, rows) ==
    With(parse_json(r.listing), LAMBDA doc :
        IF ~Iterable(doc) THEN ExpandRaise
        ELSE ExpandItems(d, IterItems(doc), s, rows))

ItemSite == <<"h", ":", "/", "/", "a", "/", "A">>
ListingEntry(u) ==
    ObjectElem([NoFields EXCEPT !.ai_page = u, !.tool_link = u, !.internal_link = u,
                                !.saves = RawStr(<<"5">>)])
ListingCells ==
    {CellNone, CellNaN, CellBlank, CellBad,
     CellJson(ArrayDoc(<<>>)),
     CellJson(ArrayDoc(<<ListingEntry(ItemSite)>>)),
     CellJson(ArrayDoc(<<ListingEntry(None), ListingEntry(ItemSite)>>)),
     CellJson(ArrayDoc(<<ScalarElem>>)),
     CellJson(ObjectDoc(1)), CellJson(StringDoc(0)), CellJson(NumberDoc)}
SourceRows ==
    {[link |-> l, name |-> <<"a">>, views |-> RawStr(<<"1", "2">>), listing |-> c] :
        l \in {Archived("T1"), Archived("X1"), Site, NaN}, c \in ListingCells}

InitDriver ==
    /\ driver \in Drivers
    /\ \E n \in 1..MaxSourceRows : source \in [1..n -> SourceRows]
    /\ rowno = 1
    /\ out = <<>>
    /\ mark = 0
    /\ found = [out |-> Idle]
    /\ dpc = "extract"
    /\ raisedBy = "nothing"
    /\ UrlIdle /\ SnapIdle /\ IntIdle /\ RowIdle /\ PanelIdle /\ SplitIdle

\* snapshot_day, date = extract_snapshot_from_url(...)
ExtractSnapshot ==
    /\ dpc = "extract"
    /\ \E s \in {extract_snapshot_from_url(SnapshotCandidates(driver, source[rowno]))} :
        /\ found' = s
        /\ dpc' = IF s.out = "raise" THEN "raised" ELSE "main"
        /\ raisedBy' = IF s.out = "raise" THEN "snapshot" ELSE raisedBy
    /\ mark' = Len(out)
    /\ UNCHANGED <<driver, source, rowno, out,
                   urlVars, snapVars, intVars, rowVars, panelVars, splitVars>>

\* the main row; process_csv_2023 builds none
BuildMain ==
    /\ dpc = "main"
    /\ IF driver = "process_csv_2023"
       THEN dpc' = "listing" /\ UNCHANGED <<out, raisedBy>>
       ELSE \E res \in {build_row(MainArgs(driver, source[rowno], found))} :
            /\ out' = AppendIfRow(out, res)
            /\ dpc' = IF res.out = "raise" THEN "raised" ELSE "listing"
            /\ raisedBy' = IF res.out = "raise" THEN "main" ELSE raisedBy
    /\ UNCHANGED <<driver, source, rowno, mark, found,
                   urlVars, snapVars, intVars, rowVars, panelVars, splitVars>>

\* the listing column of the row
ExpandRow ==
    /\ dpc = "listing"
    /\ \E x \in {ExpandListing(driver, source[rowno], found, out)} :
        IF x.raise
        THEN dpc' = "raised" /\ raisedBy' = "listing" /\ UNCHANGED out
        ELSE dpc' = "rowdone" /\ out' = x.rows /\ UNCHANGED raisedBy
    /\ UNCHANGED <<driver, source, rowno, mark, found,
                   urlVars, snapVars, intVars, rowVars, panelVars, splitVars>>

\* the next iteration of "for _, r in ...iterrows()", or the end of the CSV
NextSourceRow ==
    /\ dpc = "rowdone"
    /\ IF rowno < Len(source)
       THEN rowno' = rowno + 1 /\ dpc' = "extract"
       ELSE dpc' = "returned" /\ UNCHANGED rowno
    /\ UNCHANGED <<driver, source, out, mark, found, raisedBy,
                   urlVars, snapVars, intVars, rowVars, panelVars, splitVars>>

NextDriver == ExtractSnapshot \/ BuildMain \/ ExpandRow \/ NextSourceRow
SpecDriver == InitDriver /\ [][NextDriver]_vars

\* what the claims expect of one source row: a record for the primary tool when
\* its link canonicalizes, then one for each entry of the listing whose link
\* does, all with the snapshot of the row's URL
Expected(tool_id, s) == [tool_id |-> tool_id, snapshot_day |-> s.snapshot_day, date |-> s.date]
ExpectedPrimary(r, s) ==
    IF Resolvable(r.link) THEN <<Expected(normalize_url(r.link), s)>> ELSE <<>>
RECURSIVE ExpectedEntries(_, _)
ExpectedEntries(items, s) ==
    IF items = <<>> THEN <<>>
    ELSE (IF HasGet(Head(items)) /\ Resolvable(Head(items).f.internal_link)
          THEN <<Expected(normalize_url(Head(items).f.internal_link), s)>> ELSE <<>>)
         \o ExpectedEntries(Tail(items), s)
ExpectedOfRow(r) ==
    LET s == ClaimedSnapshot(<<r.link>>)
        doc == parse_json(r.listing)
    IN  ExpectedPrimary(r, s)
        \o (IF doc.j = "array" THEN ExpectedEntries(doc.items, s) ELSE <<>>)
\* the records the current row added to out
BuiltOfRow ==
    [i \in 1..(Len(out) - mark) |->
        Expected(out[mark + i].tool_id,
                 [snapshot_day |-> out[mark + i].snapshot_day, date |-> out[mark + i].date])]

\* C7: a processed source row yields one record for its primary tool when that
\* is identifiable, then one for each identifiable entry of its listing, in
\* that order, each with the snapshot_day and date of the row's own URL.
C7_RowRecords == dpc = "rowdone" => BuiltOfRow = ExpectedOfRow(source[rowno])

\* C9: expanding a listing cell never raises, whatever the cell holds.
C9_ListingNeverRaises == raisedBy # "listing"


(***************************************************************************)
(* One stream of new records merged into the same existing panel twice, A  *)
(* and B, in two groupings and orders of batches: what                     *)
(* append_2024_to_panel_streaming does with two chunkings of its source.   *)
(***************************************************************************)
\* seq cut into batches after the positions in cuts
RECURSIVE CutAt(_, _)
CutAt(seq, cuts) ==
    IF seq = <<>> THEN <<>>
    ELSE With(Min({c \in cuts : c >= 1 /\ c < Len(seq)} \cup {Len(seq)}), LAMBDA k :
            <<SubSeq(seq, 1, k)>>
            \o CutAt(SubSeq(seq, k + 1, Len(seq)), {c - k : c \in cuts}))
\* every ordering of the records, cut in every way
Plans(records) ==
    {CutAt([i \in 1..Len(records) |-> records[p[i]]], cuts) :
        p \in {q \in [1..Len(records) -> 1..Len(records)] :
                  \A i, j \in 1..Len(records) : q[i] = q[j] => i = j},
        cuts \in SUBSET (1..(Len(records) - 1))}

\* the panels build_panel can have left on disk
StoredPanels ==
    {to_csv(merge_frames(all_rows)) : all_rows \in UNION {[1..n -> PanelRows] : n \in 1..MaxRows}}
NewRecords == UNION {[1..n -> BatchRows] : n \in 1..MaxNew}

InitSplit ==
    /\ existing \in StoredPanels
    /\ incoming \in NewRecords
    /\ planA \in Plans(incoming)
    /\ planB \in Plans(incoming)
    /\ panelA = <<>> /\ panelB = <<>>
    /\ qpc = "start"
    /\ UrlIdle /\ SnapIdle /\ IntIdle /\ RowIdle /\ PanelIdle /\ DriverIdle

\* panel = pd.read_csv(panel_path), in both runs
LoadPanels ==
    /\ qpc = "start"
    /\ panelA' = read_csv(existing)
    /\ panelB' = read_csv(existing)
    /\ qpc' = "merging"
    /\ UNCHANGED <<existing, incoming, planA, planB,
                   urlVars, snapVars, intVars, rowVars, panelVars, driverVars>>

\* run A merges its next batch
MergeA ==
    /\ qpc = "merging"
    /\ planA # <<>>
    /\ panelA' = merge_frames(panelA \o Head(planA))
    /\ planA' = Tail(planA)
    /\ UNCHANGED <<existing, incoming, planB, panelB, qpc,
                   urlVars, snapVars, intVars, rowVars, panelVars, driverVars>>

\* run B merges its next batch
MergeB ==
    /\ qpc = "merging"
    /\ planA = <<>>
    /\ planB # <<>>
    /\ panelB' = merge_frames(panelB \o Head(planB))
    /\ planB' = Tail(planB)
    /\ UNCHANGED <<existing, incoming, planA, panelA, qpc,
                   urlVars, snapVars, intVars, rowVars, panelVars, driverVars>>

\* both sources are exhausted
EndSplit ==
    /\ qpc = "merging"
    /\ planA = <<>> /\ planB = <<>>
    /\ qpc' = "done"
    /\ UNCHANGED <<existing, incoming, planA, planB, panelA, panelB,
                   urlVars, snapVars, intVars, rowVars, panelVars, driverVars>>

NextSplit == LoadPanels \/ MergeA \/ MergeB \/ EndSplit
SpecSplit == InitSplit /\ [][NextSplit]_vars

\* the survivors of the key of record k in a stored panel, by content
Survivors(f, k) == {Content(f[i]) : i \in {j \in 1..Len(f) : SameKey(f[j], k)}}
\* the candidates of both runs: the existing panel and the new records
SplitCandidates == existing \o incoming
\* the key of k has one top-ranked candidate
UniqueTop(f, k) ==
    \E i \in 1..Len(f) :
        /\ SameKey(f[i], k)
        /\ \A j \in 1..Len(f) : j # i /\ SameKey(f[j], k) => RankBefore(f[i], f[j])

\* C4: for a fixed existing panel and fixed new records, the survivor of every
\* key whose top-ranked candidate is unique is the same for every split of the
\* new records into batches and every order of the batches.
C4_SplitIndependent ==
    qpc = "done" =>
        \A k \in Rows(SplitCandidates) :
            UniqueTop(SplitCandidates, k)
                => Survivors(to_csv(panelA), k) = Survivors(to_csv(panelB), k)

====
